---------------------------- MODULE Spec2Model ----------------------------
(***************************************************************************)
(* Model of the Bluetooth car controller in src/arduino_car_code.c: the    *)
(* timing-gap framing of serial bytes into G_Bluetooth_value, the parsing  *)
(* of an optional speed prefix into BLE_Change_SPEED, and the four pin     *)
(* writes each action makes.                                               *)
(*                                                                         *)
(* Target: the AVR Arduino the sketch is written for (pins 2/4 direction,  *)
(* 5/6 PWM): int is 16 bits, long 32 bits, float and double are IEEE       *)
(* single precision.  Strings are sequences of one-character strings.      *)
(***************************************************************************)
EXTENDS Integers, Sequences, FiniteSets, TLC

VARIABLES
    rx,         \* bytes received by the UART and not yet read (Serial.available/read)
    buf,        \* G_Bluetooth_value
    speed,      \* BLE_Change_SPEED
    pins,       \* the outputs: p2, p4 in {"LOW","HIGH"}; p5, p6 the value last given to analogWrite
    pc,         \* position in loop(): "drain" (16), "ready" (21), "interp" (26), "write" (53-94), "clear" (98)
    pend,       \* pin writes of the selected branch not yet executed
    serialOut,  \* lines printed to Serial by the current pass of loop()
    build,      \* what this build makes of a float outside the range of int (fixed for a run)
    hist,       \* history: bytes read (read) and bytes of the frames dispatched (sent),
                \* without the prefix on which the two agree
    prev,       \* history (SpecRepeat): the last two dispatches, latest first, each
                \* the frame and the state it left
    twin,       \* SpecPair: a second run of the same program
    tx          \* the sender (SpecSplit, SpecLive): the frame it is sending, and whether it pauses

vars == <<rx, buf, speed, pins, pc, pend, serialOut, build, hist, prev, twin, tx>>

\* what the program itself does not hold
aux == <<prev, twin, tx>>

-----------------------------------------------------------------------------
(* Bounds of the model *)

\* Spec: at most this many bytes are held in rx and buf together
MaxLen == 4
\* SpecFrame: every digit string over FrameDigits up to this length is a speed prefix
MaxDigits == 2

-----------------------------------------------------------------------------
(* Characters and strings *)

\* what String::charAt returns for an index outside the string
NUL == "NUL"

isDigit(c) == c \in {"0", "1", "2", "3", "4", "5", "6", "7", "8", "9"}

DigitVal(c) ==
    CASE c = "0" -> 0 [] c = "1" -> 1 [] c = "2" -> 2 [] c = "3" -> 3
      [] c = "4" -> 4 [] c = "5" -> 5 [] c = "6" -> 6 [] c = "7" -> 7
      [] c = "8" -> 8 [] c = "9" -> 9

\* String::charAt, index from 0
charAt(s, i) == IF i >= 0 /\ i < Len(s) THEN s[i + 1] ELSE NUL

\* String::substring(from, to): the characters at indices from .. to-1
substring(s, from, to) == SubSeq(s, from + 1, to)

\* atol, as String::toInt calls it: the value of the leading run of digits,
\* stopping at the first other character.  (The strings it is given here start
\* with a digit and hold at most 9 digits, so the 32-bit long does not wrap.)
RECURSIVE atol(_, _)
atol(s, acc) ==
    IF s = <<>> \/ ~isDigit(Head(s)) THEN acc
    ELSE atol(Tail(s), acc * 10 + DigitVal(Head(s)))

toInt(s) == atol(s, 0)

\* the conversion of a long to the 16-bit int BLE_Change_SPEED: the low 16 bits, signed
IntOfLong(n) ==
    LET m == n % 65536 IN IF m >= 32768 THEN m - 65536 ELSE m

-----------------------------------------------------------------------------
(* Single-precision arithmetic of line 40.  A float is [neg, num, sh]: the   *)
(* value (-1)^neg * num / 2^sh.                                              *)

\* n / d rounded to the nearest integer, ties to even (n >= 0, d > 0)
RoundDiv(n, d) ==
    LET q == n \div d
        r == n % d
    IN  IF 2 * r > d \/ (2 * r = d /\ q % 2 = 1) THEN q + 1 ELSE q

\* the least k >= from with a * 2^k >= lo  (a > 0)
RECURSIVE ScaleUp(_, _, _)
ScaleUp(a, lo, from) == IF a * 2^from >= lo THEN from ELSE ScaleUp(a, lo, from + 1)

\* the least r >= from with p < 2^(24 + r)
RECURSIVE ScaleDown(_, _)
ScaleDown(p, from) == IF p < 2^(24 + from) THEN from ELSE ScaleDown(p, from + 1)

\* F of the value of e, with e evaluated once (an intermediate result of the
\* computation; a LET is evaluated again wherever its name occurs when TLC
\* evaluates ENABLED)
With(e, F(_)) == CHOOSE r \in {F(v) : v \in {e}} : TRUE

\* the float a / 10.0 for an integer 0 < a <= 32768: a 24-bit significand m
\* with a/10 ~ m / 2^k, rounded to nearest
F32Div10(a) ==
    With(ScaleUp(a, 10 * 2^23, 0),
         LAMBDA k : [num |-> RoundDiv(a * 2^k, 10), sh |-> k])

\* the float x * 22.5 = x * 45 / 2, rounded to a 24-bit significand
F32Mul22_5(x) ==
    With(45 * x.num,
         LAMBDA p : With(ScaleDown(p, 0),
                         LAMBDA r : [num |-> RoundDiv(p, 2^r), sh |-> x.sh + 1 - r]))

\* line 40: float motorSpeed = (BLE_Change_SPEED / 10.0) * 22.5
MotorSpeed(s) ==
    IF s = 0 THEN [neg |-> FALSE, num |-> 0, sh |-> 0]
    ELSE With(F32Mul22_5(F32Div10(IF s < 0 THEN -s ELSE s)),
              LAMBDA y : [neg |-> s < 0, num |-> y.num, sh |-> y.sh])

\* the float with its fraction discarded
Trunc(x) == LET t == x.num \div 2^(x.sh) IN IF x.neg THEN -t ELSE t

\* The conversion of the float motorSpeed to analogWrite's int parameter.  In
\* the range of int the fraction is discarded.  Outside it the conversion is
\* undefined: a build either keeps the low 16 bits or saturates.
Builds == {"low16", "saturate"}

Convert(x, b) ==
    With(Trunc(x),
         LAMBDA t : IF -32768 <= t /\ t <= 32767 THEN t
                    ELSE IF b = "low16" THEN IntOfLong(t)
                    ELSE IF t < 0 THEN -32768 ELSE 32767)

\* the outcomes of the conversion over all builds
FloatToInt(x) == {Convert(x, b) : b \in Builds}

-----------------------------------------------------------------------------
(* Interpretation of a frame: lines 26-40 *)

\* line 26: the frame starts with the sentinel
Sentinel(f) == charAt(f, 0) = "%"

\* SpeedBearing with the length test off by one (len >= 2)
SpeedBearingFromTwo(f) == Len(f) >= 2 /\ isDigit(charAt(f, 1))

\* line 29: a numeric value precedes the command letter
SpeedBearing(f) == Len(f) > 2 /\ isDigit(charAt(f, 1))

\* ParseSpeed without the length test of line 29: any digit after '%' starts a number
ParseSpeedAnyDigit(f, s) ==
    IF isDigit(charAt(f, 1)) THEN IntOfLong(toInt(substring(f, 1, Len(f) - 1))) ELSE s

\* ParseSpeed with the number of the frame added to the speed
ParseSpeedAccumulates(f, s) ==
    IF SpeedBearing(f) THEN IntOfLong(s + toInt(substring(f, 1, Len(f) - 1))) ELSE s

\* lines 31-32: BLE_Change_SPEED after a frame starting with '%', s its value before
ParseSpeed(f, s) ==
    IF SpeedBearing(f) THEN IntOfLong(toInt(substring(f, 1, Len(f) - 1))) ELSE s

\* lines 33 and 36: cmd
ParseCmd(f) ==
    IF SpeedBearing(f) THEN charAt(f, Len(f) - 1) ELSE charAt(f, 1)

-----------------------------------------------------------------------------
(* The pin writes of each branch, in program order; d is motorSpeed as      *)
(* analogWrite receives it.                                                 *)

Write(p, v) == [pin |-> p, val |-> v]

\* StopWrites with the direction of pin 4 copied from the left channel
StopWritesBothLow == <<Write(2, "LOW"), Write(5, 0), Write(4, "LOW"), Write(6, 0)>>

\* StopWrites without the write of the right channel's duty
StopWritesLeftOnly == <<Write(2, "LOW"), Write(5, 0), Write(4, "HIGH")>>

\* lines 83-86 and 91-94
StopWrites == <<Write(2, "LOW"), Write(5, 0), Write(4, "HIGH"), Write(6, 0)>>

\* CaseWrites with the directions of 'W' and 'S' exchanged
CaseWritesSwapped(cmd, d) ==
    CASE cmd \in {"+", "-"} -> <<>>
      [] cmd = "L" -> <<Write(2, "LOW"), Write(5, d), Write(4, "LOW"), Write(6, d)>>
      [] cmd = "R" -> <<Write(2, "HIGH"), Write(5, d), Write(4, "HIGH"), Write(6, d)>>
      [] cmd = "W" -> <<Write(2, "LOW"), Write(5, d), Write(4, "HIGH"), Write(6, d)>>
      [] cmd = "S" -> <<Write(2, "HIGH"), Write(5, d), Write(4, "LOW"), Write(6, d)>>
      [] OTHER -> StopWrites

\* CaseWrites with the break of the '-' branch missing: it runs on into 'L'
CaseWritesAckFallsThrough(cmd, d) ==
    CASE cmd = "+" -> <<>>
      [] cmd \in {"-", "L"} -> <<Write(2, "LOW"), Write(5, d), Write(4, "LOW"), Write(6, d)>>
      [] cmd = "R" -> <<Write(2, "HIGH"), Write(5, d), Write(4, "HIGH"), Write(6, d)>>
      [] cmd = "W" -> <<Write(2, "HIGH"), Write(5, d), Write(4, "LOW"), Write(6, d)>>
      [] cmd = "S" -> <<Write(2, "LOW"), Write(5, d), Write(4, "HIGH"), Write(6, d)>>
      [] OTHER -> StopWrites

\* CaseWrites with differential speeds in the turns: the inner motor at half duty
CaseWritesDifferentialTurn(cmd, d) ==
    CASE cmd \in {"+", "-"} -> <<>>
      [] cmd = "L" -> <<Write(2, "LOW"), Write(5, d \div 2), Write(4, "LOW"), Write(6, d)>>
      [] cmd = "R" -> <<Write(2, "HIGH"), Write(5, d), Write(4, "HIGH"), Write(6, d \div 2)>>
      [] cmd = "W" -> <<Write(2, "HIGH"), Write(5, d), Write(4, "LOW"), Write(6, d)>>
      [] cmd = "S" -> <<Write(2, "LOW"), Write(5, d), Write(4, "HIGH"), Write(6, d)>>
      [] OTHER -> StopWrites

\* the switch of lines 42-88
CaseWrites(cmd, d) ==
    CASE cmd \in {"+", "-"} -> <<>>
      [] cmd = "L" -> <<Write(2, "LOW"), Write(5, d), Write(4, "LOW"), Write(6, d)>>
      [] cmd = "R" -> <<Write(2, "HIGH"), Write(5, d), Write(4, "HIGH"), Write(6, d)>>
      [] cmd = "W" -> <<Write(2, "HIGH"), Write(5, d), Write(4, "LOW"), Write(6, d)>>
      [] cmd = "S" -> <<Write(2, "LOW"), Write(5, d), Write(4, "HIGH"), Write(6, d)>>
      [] OTHER -> StopWrites

\* SpeedNotice with the notice printed by every branch of the switch
SpeedNoticeAlways(cmd, s) == <<<<"Speed updated to: ", s>>>>

\* lines 44-45 and 49-50: the notice of the '+' and '-' branches
SpeedNotice(cmd, s) ==
    IF cmd \in {"+", "-"} THEN <<<<"Speed updated to: ", s>>>> ELSE <<>>

\* ApplyWrite with a duty that is only ever raised, never lowered
ApplyWriteRampsUp(p, w) ==
    CASE w.pin = 2 -> [p EXCEPT !.p2 = w.val]
      [] w.pin = 5 -> [p EXCEPT !.p5 = IF w.val > p.p5 THEN w.val ELSE p.p5]
      [] w.pin = 4 -> [p EXCEPT !.p4 = w.val]
      [] w.pin = 6 -> [p EXCEPT !.p6 = IF w.val > p.p6 THEN w.val ELSE p.p6]

\* digitalWrite / analogWrite: one write applied to the outputs
ApplyWrite(p, w) ==
    CASE w.pin = 2 -> [p EXCEPT !.p2 = w.val]
      [] w.pin = 5 -> [p EXCEPT !.p5 = w.val]
      [] w.pin = 4 -> [p EXCEPT !.p4 = w.val]
      [] w.pin = 6 -> [p EXCEPT !.p6 = w.val]

RECURSIVE ApplyAll(_, _)
ApplyAll(p, ws) == IF ws = <<>> THEN p ELSE ApplyAll(ApplyWrite(p, Head(ws)), Tail(ws))

\* Interpretations with motorSpeed computed before the speed of the frame is stored
InterpretationsStaleSpeed(f, s) ==
    IF charAt(f, 0) = "%"
    THEN LET s2 == IF Len(f) > 2 /\ isDigit(charAt(f, 1))
                   THEN IntOfLong(toInt(substring(f, 1, Len(f) - 1))) ELSE s
             cmd == IF Len(f) > 2 /\ isDigit(charAt(f, 1))
                    THEN charAt(f, Len(f) - 1) ELSE charAt(f, 1)
             ws(d) == IF cmd \in {"+", "-"} THEN <<>>
                      ELSE IF cmd \in {"L", "R", "W", "S"}
                      THEN <<Write(2, IF cmd \in {"R", "W"} THEN "HIGH" ELSE "LOW"), Write(5, d),
                             Write(4, IF cmd \in {"R", "S"} THEN "HIGH" ELSE "LOW"), Write(6, d)>>
                      ELSE <<Write(2, "LOW"), Write(5, 0), Write(4, "HIGH"), Write(6, 0)>>
         IN  {[speed |-> s2, writes |-> ws(d),
               lines |-> IF cmd \in {"+", "-"} THEN <<<<"Speed updated to: ", s2>>>> ELSE <<>>] :
                 d \in {Convert(MotorSpeed(s), build)}}
    ELSE {[speed |-> s, writes |-> <<Write(2, "LOW"), Write(5, 0), Write(4, "HIGH"), Write(6, 0)>>,
           lines |-> <<>>]}

\* lines 26-95 for the frame f with BLE_Change_SPEED = s: the new speed, the
\* writes to make and the lines to print
Interpretations(f, s) ==
    IF Sentinel(f)
    THEN LET s2 == ParseSpeed(f, s)
             cmd == ParseCmd(f)
         IN  {[speed |-> s2, writes |-> CaseWrites(cmd, d), lines |-> SpeedNotice(cmd, s2)] :
                 d \in {Convert(MotorSpeed(s2), build)}}
    ELSE {[speed |-> s, writes |-> StopWrites, lines |-> <<>>]}

\* the buffer left as it is
NotCleared == buf

\* line 98
Cleared == <<>>

-----------------------------------------------------------------------------
(* State after setup(): lines 4-12.  The outputs are low and no PWM runs    *)
(* until the first write.                                                   *)

DefaultSpeed == 60

InitialPins == [p2 |-> "LOW", p5 |-> 0, p4 |-> "LOW", p6 |-> 0]

NoHistory == [read |-> <<>>, sent |-> <<>>]
NoDispatch == <<>>
NoTwin == [buf |-> <<>>, speed |-> DefaultSpeed, pins |-> InitialPins, was |-> <<>>]
NoSender == [frame |-> <<>>, left |-> <<>>, start |-> <<>>, quiet |-> FALSE]

Init ==
    /\ rx = <<>>
    /\ buf = <<>>
    /\ speed = DefaultSpeed
    /\ pins = InitialPins
    /\ pc = "drain"
    /\ pend = <<>>
    /\ serialOut = <<>>
    /\ build \in Builds
    /\ hist = NoHistory
    /\ prev = NoDispatch
    /\ twin = NoTwin
    /\ tx = NoSender

-----------------------------------------------------------------------------
(* loop(), one statement at a time; bytes arrive at any moment *)

\* history: the bytes b have been read
Reading(h, b) == [h EXCEPT !.read = h.read \o b]

\* history: the frame f has been dispatched; what read and sent agree on is forgotten
Sending(h, f) ==
    IF h.read = h.sent \o f THEN NoHistory ELSE [h EXCEPT !.sent = h.sent \o f]

\* the bytes the sender may transmit
Bytes == {"%", "5", "W", "+", "X"}

\* the UART receives a byte (asynchronously to loop)
ByteArrives(c) ==
    /\ Len(rx) + Len(buf) < MaxLen
    /\ rx' = Append(rx, c)
    /\ UNCHANGED <<buf, speed, pins, pc, pend, serialOut, build, hist, aux>>

\* ReadByte with = in the place of +=: the byte replaces the buffer
ReadByteOverwrites ==
    /\ pc = "drain"
    /\ rx # <<>>
    /\ buf' = <<Head(rx)>>
    /\ rx' = Tail(rx)
    /\ hist' = Reading(hist, <<Head(rx)>>)
    /\ UNCHANGED <<speed, pins, pc, pend, serialOut, build, aux>>

\* lines 16-18: a byte is available and is appended to the buffer
ReadByte ==
    /\ pc = "drain"
    /\ rx # <<>>
    /\ buf' = Append(buf, Head(rx))
    /\ rx' = Tail(rx)
    /\ hist' = Reading(hist, <<Head(rx)>>)
    /\ UNCHANGED <<speed, pins, pc, pend, serialOut, build, aux>>

\* DrainDone as a blocking read: the loop is left only with something in the buffer
DrainDoneBlocking ==
    /\ pc = "drain"
    /\ rx = <<>>
    /\ buf # <<>>
    /\ pc' = "ready"
    /\ UNCHANGED <<rx, buf, speed, pins, pend, serialOut, build, hist, aux>>

\* line 16: nothing is available, the while loop ends
DrainDone ==
    /\ pc = "drain"
    /\ rx = <<>>
    /\ pc' = "ready"
    /\ UNCHANGED <<rx, buf, speed, pins, pend, serialOut, build, hist, aux>>

\* NoFrame with a watchdog: a cycle with nothing to dispatch stops the motors
NoFrameStops ==
    /\ pc = "ready"
    /\ Len(buf) = 0
    /\ pins' = ApplyAll(pins, StopWrites)
    /\ pc' = "drain"
    /\ UNCHANGED <<rx, buf, speed, pend, serialOut, build, hist, aux>>

\* line 21, buffer empty: loop() returns and is called again
NoFrame ==
    /\ pc = "ready"
    /\ Len(buf) = 0
    /\ pc' = "drain"
    /\ UNCHANGED <<rx, buf, speed, pins, pend, serialOut, build, hist, aux>>

\* lines 21-22: the frame is echoed
Echo ==
    /\ pc = "ready"
    /\ Len(buf) > 0
    /\ serialOut' = <<buf>>
    /\ pc' = "interp"
    /\ UNCHANGED <<rx, buf, speed, pins, pend, build, hist, aux>>

\* Interpret with the number of the frame used for this dispatch only, not stored
InterpretKeepsSpeed ==
    /\ pc = "interp"
    /\ \E i \in Interpretations(buf, speed) :
          /\ speed' = speed
          /\ pend' = i.writes
          /\ serialOut' = serialOut \o i.lines
    /\ pc' = "write"
    /\ UNCHANGED <<rx, buf, pins, build, hist, aux>>

\* lines 26-51 and 89: parsing, motorSpeed, the choice of the branch and its notice
Interpret ==
    /\ pc = "interp"
    /\ \E i \in Interpretations(buf, speed) :
          /\ speed' = i.speed
          /\ pend' = i.writes
          /\ serialOut' = serialOut \o i.lines
    /\ pc' = "write"
    /\ UNCHANGED <<rx, buf, pins, build, hist, aux>>

\* one digitalWrite or analogWrite of the branch
PinWrite ==
    /\ pc = "write"
    /\ pend # <<>>
    /\ pins' = ApplyWrite(pins, Head(pend))
    /\ pend' = Tail(pend)
    /\ UNCHANGED <<rx, buf, speed, pc, serialOut, build, hist, aux>>

\* the branch is done (break, or the end of the else part)
BranchDone ==
    /\ pc = "write"
    /\ pend = <<>>
    /\ pc' = "clear"
    /\ UNCHANGED <<rx, buf, speed, pins, pend, serialOut, build, hist, aux>>

\* line 98, then loop() returns and is called again
Clear ==
    /\ pc = "clear"
    /\ buf' = Cleared
    /\ serialOut' = <<>>
    /\ pc' = "drain"
    /\ hist' = Sending(hist, serialOut[1])
    /\ UNCHANGED <<rx, speed, pins, pend, build>>

ClearBuffer == Clear /\ UNCHANGED aux

Next ==
    \/ \E c \in Bytes : ByteArrives(c)
    \/ ReadByte
    \/ DrainDone
    \/ NoFrame
    \/ Echo
    \/ Interpret
    \/ PinWrite
    \/ BranchDone
    \/ ClearBuffer

Spec == Init /\ [][Next]_vars

-----------------------------------------------------------------------------
(* loop() frame by frame: a paced sender, whose frame has arrived whole by  *)
(* the time the drain loop ends, and the dispatch of lines 21-95 as one     *)
(* step.                                                                    *)

FrameDigits == {"0", "5"}

DigitStrings == UNION {[1..k -> FrameDigits] : k \in 1..MaxDigits}

\* further speed prefixes: a multiple of 4 whose product is not exact in single
\* precision, one past 255 in duty, two past the 16-bit int
WideNumbers ==
    {<<"5", "2">>, <<"5", "0", "0">>, <<"5", "5", "5", "5", "5">>, <<"5", "0", "0", "0", "0">>}

FinalChars == {"L", "R", "W", "S", "+", "-", "X"}

SpeedFrames ==
    {<<"%">> \o d \o <<a>> : d \in DigitStrings \cup WideNumbers, a \in FinalChars}

BareFrames ==
    {<<"%">>} \cup {<<"%", c>> : c \in FinalChars \cup FrameDigits \cup {"%"}}

\* a digit, then a letter inside the numeric span; and a numeric span with no action letter
MalformedFrames ==
    {<<"%", d, "a">> \o t \o <<a>> : d \in FrameDigits, t \in {<<>>, <<"5">>}, a \in FinalChars}
      \cup {<<"%", d, e>> : d \in FrameDigits, e \in FrameDigits}

NonSentinelFrames ==
    {<<"h", "e", "l", "l", "o">>, <<"5", "0", "W">>, <<"W", "%">>, <<"0">>}
      \cup {<<a>> : a \in FinalChars}

Frames == SpeedFrames \cup BareFrames \cup MalformedFrames \cup NonSentinelFrames

\* lines 16-19 over a whole frame: every byte of f is read into the empty buffer
Arrives(f) ==
    /\ pc = "drain"
    /\ rx = <<>>
    /\ buf = <<>>
    /\ buf' = buf \o f
    /\ pc' = "ready"
    /\ hist' = Reading(hist, f)
    /\ UNCHANGED <<rx, speed, pins, pend, serialOut, build>>

FrameArrives(f) == Arrives(f) /\ UNCHANGED aux

\* lines 21-95: echo, parsing and every pin write of the branch
Pass ==
    /\ pc = "ready"
    /\ Len(buf) > 0
    /\ \E i \in Interpretations(buf, speed) :
          /\ speed' = i.speed
          /\ pins' = ApplyAll(pins, i.writes)
          /\ serialOut' = <<buf>> \o i.lines
    /\ pc' = "clear"
    /\ UNCHANGED <<rx, buf, pend, build, hist>>

Dispatch == Pass /\ UNCHANGED aux

NextFrame ==
    \/ \E f \in Frames : FrameArrives(f)
    \/ Dispatch
    \/ ClearBuffer

SpecFrame == Init /\ [][NextFrame]_vars

-----------------------------------------------------------------------------
(* Two runs of the program side by side, frame by frame.  The second run,   *)
(* twin, is given a frame whenever the first is, the same or another.       *)

PairFrames ==
    {<<"%", a>> : a \in FinalChars} \cup {<<"%", "5", a>> : a \in {"W", "L", "+"}}
      \cup {<<"X">>}

\* lines 16-19 in both runs
PairArrives(f, g) ==
    /\ Arrives(f)
    /\ twin' = [twin EXCEPT !.buf = g]
    /\ UNCHANGED <<prev, tx>>

\* lines 21-95 in both runs; twin.was keeps the speed and the outputs each run had before
PairDispatch ==
    /\ Pass
    /\ \E j \in Interpretations(twin.buf, twin.speed) :
          twin' = [buf |-> twin.buf,
                   speed |-> j.speed,
                   pins |-> ApplyAll(twin.pins, j.writes),
                   was |-> [a |-> [speed |-> speed, pins |-> pins],
                            b |-> [speed |-> twin.speed, pins |-> twin.pins]]]
    /\ UNCHANGED <<prev, tx>>

\* line 98 in both runs
PairClear ==
    /\ Clear
    /\ twin' = [twin EXCEPT !.buf = <<>>, !.was = <<>>]
    /\ UNCHANGED <<prev, tx>>

NextPair ==
    \/ \E f, g \in PairFrames : PairArrives(f, g)
    \/ PairDispatch
    \/ PairClear

SpecPair == Init /\ [][NextPair]_vars

-----------------------------------------------------------------------------
(* loop() byte by byte, with a sender that transmits one frame of the wire  *)
(* format at a time, its bytes arriving at any moments.                     *)

SplitFrames ==
    {<<"%", a>> : a \in {"W", "L", "+"}}
      \cup {<<"%", "5", a>> : a \in {"W", "+"}} \cup {<<"%", "5", "0", "S">>}

\* with the program idle, the sender starts on the frame f; tx.start keeps the
\* Target Speed and the outputs of that moment
StartFrame(f) ==
    /\ pc = "drain"
    /\ rx = <<>>
    /\ buf = <<>>
    /\ tx.left = <<>>
    /\ tx' = [frame |-> f, left |-> f, start |-> [speed |-> speed, pins |-> pins], quiet |-> FALSE]
    /\ UNCHANGED <<rx, buf, speed, pins, pc, pend, serialOut, build, hist, prev, twin>>

\* the UART receives the next byte of the frame (asynchronously to loop)
SendByte ==
    /\ tx.left # <<>>
    /\ rx' = Append(rx, Head(tx.left))
    /\ tx' = [tx EXCEPT !.left = Tail(tx.left)]
    /\ UNCHANGED <<buf, speed, pins, pc, pend, serialOut, build, hist, prev, twin>>

NextSplit ==
    \/ \E f \in SplitFrames : StartFrame(f)
    \/ SendByte
    \/ ReadByte
    \/ DrainDone
    \/ NoFrame
    \/ Echo
    \/ Interpret
    \/ PinWrite
    \/ BranchDone
    \/ ClearBuffer

SpecSplit == Init /\ [][NextSplit]_vars

-----------------------------------------------------------------------------
(* loop() byte by byte under a sender free to transmit without end, or to   *)
(* pause.  To keep the states finite, buf holds the first MaxKept           *)
(* characters of G_Bluetooth_value only; what is checked under this         *)
(* specification reads of the buffer only whether it is empty.              *)

MaxKept == 2

LiveBytes == {"%", "W"}

\* the sender stops transmitting
SenderPauses ==
    /\ ~tx.quiet
    /\ tx' = [tx EXCEPT !.quiet = TRUE]
    /\ UNCHANGED <<rx, buf, speed, pins, pc, pend, serialOut, build, hist, prev, twin>>

\* the sender transmits again
SenderResumes ==
    /\ tx.quiet
    /\ tx' = [tx EXCEPT !.quiet = FALSE]
    /\ UNCHANGED <<rx, buf, speed, pins, pc, pend, serialOut, build, hist, prev, twin>>

\* the UART receives a byte; the sender is at most MaxKept bytes ahead of the reads
StreamByte(c) ==
    /\ ~tx.quiet
    /\ Len(rx) < MaxKept
    /\ rx' = Append(rx, c)
    /\ UNCHANGED <<buf, speed, pins, pc, pend, serialOut, build, hist, aux>>

\* lines 16-18, with only the first MaxKept characters of the buffer kept
ReadByteKept ==
    /\ pc = "drain"
    /\ rx # <<>>
    /\ rx' = Tail(rx)
    /\ IF Len(buf) < MaxKept
       THEN buf' = Append(buf, Head(rx)) /\ hist' = Reading(hist, <<Head(rx)>>)
       ELSE UNCHANGED <<buf, hist>>
    /\ UNCHANGED <<speed, pins, pc, pend, serialOut, build, aux>>

\* the statement of loop() to execute next
LoopStep ==
    \/ ReadByteKept
    \/ DrainDone
    \/ NoFrame
    \/ Echo
    \/ Interpret
    \/ PinWrite
    \/ BranchDone
    \/ ClearBuffer

NextLive ==
    \/ SenderPauses
    \/ SenderResumes
    \/ \E c \in LiveBytes : StreamByte(c)
    \/ LoopStep

\* the processor never stops executing loop(): its next statement is always taken
SpecLive == Init /\ [][NextLive]_vars /\ WF_vars(LoopStep)

-----------------------------------------------------------------------------
(* loop() frame by frame as in SpecFrame, with the last two dispatches      *)
(* recorded.                                                                *)

\* speed prefixes: one in the conventional range, and one that takes
\* motorSpeed out of the range of int
RepeatNumbers == {<<"5">>, <<"5", "0", "0", "0", "0">>}

RepeatFrames ==
    BareFrames \cup {<<"%">> \o d \o <<a>> : d \in RepeatNumbers, a \in FinalChars}
      \cup {<<"X">>, <<"5", "W">>}

\* the dispatch d put in front of the record h of the last two
Recorded(d, h) == IF h = <<>> THEN <<d>> ELSE <<d, h[1]>>

\* line 98, with the dispatch now complete recorded in prev
ClearFrame ==
    /\ Clear
    /\ prev' = Recorded([frame |-> buf, speed |-> speed, pins |-> pins], prev)
    /\ UNCHANGED <<twin, tx>>

NextRepeat ==
    \/ \E f \in RepeatFrames : FrameArrives(f)
    \/ Dispatch
    \/ ClearFrame

SpecRepeat == Init /\ [][NextRepeat]_vars

-----------------------------------------------------------------------------
(* Vocabulary of the properties: the dispatch table of the specification,   *)
(* and frames as the wire format describes them.                            *)

\* the branch of a dispatch is complete and the buffer still holds its frame
Dispatched == pc = "clear"

\* one row of the dispatch table, forward = HIGH and reverse = LOW
TableRow(a, d) ==
    CASE a = "L" -> [p2 |-> "LOW", p5 |-> d, p4 |-> "LOW", p6 |-> d]
      [] a = "R" -> [p2 |-> "HIGH", p5 |-> d, p4 |-> "HIGH", p6 |-> d]
      [] a = "W" -> [p2 |-> "HIGH", p5 |-> d, p4 |-> "LOW", p6 |-> d]
      [] a = "S" -> [p2 |-> "LOW", p5 |-> d, p4 |-> "HIGH", p6 |-> d]

StopRow == [p2 |-> "LOW", p5 |-> 0, p4 |-> "HIGH", p6 |-> 0]

MotionSymbols == {"L", "R", "W", "S"}
AckSymbols == {"+", "-"}

StartsWithPercent(f) == Len(f) > 0 /\ f[1] = "%"

\* first char '%', length > 2, digit at index 1
HasSpeedPrefix(f) == StartsWithPercent(f) /\ Len(f) > 2 /\ isDigit(f[2])

\* the action symbol of a frame starting with '%': its last character after a
\* speed prefix, its second character otherwise (none in the frame "%")
ActionSymbol(f) ==
    IF HasSpeedPrefix(f) THEN f[Len(f)]
    ELSE IF Len(f) >= 2 THEN f[2] ELSE "none"

\* %<digits><action>: one or more digits, then exactly one character that is no digit
WellFormedSpeedFrame(f) ==
    /\ HasSpeedPrefix(f)
    /\ \A i \in 2..(Len(f) - 1) : isDigit(f[i])
    /\ ~isDigit(f[Len(f)])

\* the integer a string of decimal digits denotes
RECURSIVE DecimalValue(_)
DecimalValue(d) ==
    IF d = <<>> THEN 0
    ELSE 10 * DecimalValue(SubSeq(d, 1, Len(d) - 1)) + DigitVal(d[Len(d)])

Abs(n) == IF n < 0 THEN -n ELSE n

-----------------------------------------------------------------------------
(* C1 *)

\* C1: after the dispatch of any frame whose first character is not '%', both
\* channels are in the stop configuration (pin 2 LOW, duty 0, pin 4 HIGH, duty 0),
\* whatever the outputs and the speed were before.
C1_NonSentinelFrameStops ==
    (Dispatched /\ ~StartsWithPercent(buf)) => pins = StopRow

\* "hello" dispatched after the speed was set to 50 by an earlier frame
C1_Witness ==
    /\ Dispatched
    /\ buf = <<"h", "e", "l", "l", "o">>
    /\ speed = 50
    /\ pins = StopRow

-----------------------------------------------------------------------------
(* C2 *)

\* C2: after the dispatch of a frame %<digits><action>, Target Speed equals the
\* integer value of <digits>.
C2_SpeedIsValueOfDigits ==
    (Dispatched /\ WellFormedSpeedFrame(buf))
        => speed = DecimalValue(SubSeq(buf, 2, Len(buf) - 1))

-----------------------------------------------------------------------------
(* C3 *)

\* C3: Target Speed changes only in the dispatch of a speed-bearing frame (first
\* char '%', length > 2, digit at index 1); every other step of the program -
\* the dispatch of any other frame, a byte read, an idle cycle - leaves it as it was.
C3_SpeedChangedOnlyBySpeedFrame ==
    [][speed' # speed => (pc = "interp" /\ HasSpeedPrefix(buf))]_vars

\* the bare frame %W dispatched after a frame had set the speed to 5: the speed is kept
C3_Witness ==
    /\ Dispatched
    /\ buf = <<"%", "W">>
    /\ speed = 5
    /\ pins.p5 = 11

-----------------------------------------------------------------------------
(* C4 *)

\* C4: after the dispatch of a frame starting with '%', the outputs are the row of
\* the dispatch table for its action symbol when that is L, R, W or S, both duties
\* being motorSpeed of the current Target Speed as analogWrite receives it; and the
\* stop row for any other symbol except '+' and '-'.
C4_OutputsAreTableRow ==
    (Dispatched /\ StartsWithPercent(buf)) =>
        LET a == ActionSymbol(buf) IN
          /\ a \in MotionSymbols =>
                \E d \in FloatToInt(MotorSpeed(speed)) : pins = TableRow(a, d)
          /\ a \notin MotionSymbols \cup AckSymbols => pins = StopRow

\* %W dispatched at the default speed: left forward, right reverse, duty 135 on both
C4_Witness ==
    /\ Dispatched
    /\ buf = <<"%", "W">>
    /\ speed = 60
    /\ pins = TableRow("W", 135)

-----------------------------------------------------------------------------
(* C5 *)

\* C5 as stated: after a motion frame the duty of both channels is exactly
\* (S/10.0)*22.5, that is 4*duty = 9*S, S being Target Speed after parsing.
C5_DutyIsExactProduct ==
    (Dispatched /\ StartsWithPercent(buf) /\ ActionSymbol(buf) \in MotionSymbols)
        => (4 * pins.p5 = 9 * speed /\ 4 * pins.p6 = 9 * speed)

\* C5 as amended: after a motion frame both channels carry the same duty, the
\* single-precision product (S/10.0)*22.5 for Target Speed S after parsing,
\* converted to int: whenever the product is in the range of int, its sign is that
\* of S and its magnitude is 9*|S|/4 with the fraction discarded, or one less than
\* that when S is a multiple of 4 (the product then may round below the integer).
C5_DutyIsTruncatedProduct ==
    (Dispatched /\ StartsWithPercent(buf) /\ ActionSymbol(buf) \in MotionSymbols)
        => /\ pins.p5 = pins.p6
           /\ 9 * Abs(speed) <= 4 * 32767 =>
                LET a == Abs(speed)
                    d == Abs(pins.p5)
                IN  /\ 4 * d <= 9 * a
                    /\ 9 * a < 4 * d + 8
                    /\ a % 4 # 0 => 9 * a < 4 * d + 4
                    /\ pins.p5 # 0 => (pins.p5 < 0 <=> speed < 0)

\* %50L: Target Speed 50, motorSpeed 112.5, both channels reverse with duty 112
C5_Witness ==
    /\ Dispatched
    /\ buf = <<"%", "5", "0", "L">>
    /\ speed = 50
    /\ pins = TableRow("L", 112)

-----------------------------------------------------------------------------
(* C6 *)

\* C6: whenever a pass of loop() ends, the Command Buffer is empty: an idle pass
\* found it empty, and a pass that dispatched a frame cleared it, whatever the
\* frame and its branch.
C6_BufferEmptyAtEndOfCycle ==
    [][(pc # "drain" /\ pc' = "drain") => buf' = <<>>]_vars

\* a new pass starts with an empty buffer after %W was dispatched
C6_Witness ==
    /\ pc = "drain"
    /\ buf = <<>>
    /\ rx = <<>>
    /\ pins = TableRow("W", 135)

-----------------------------------------------------------------------------
(* C7 *)

\* C7: the dispatch of a frame starting with '%' whose action symbol is '+' or '-'
\* leaves the four outputs as they were, also when it changes Target Speed.
C7_AckLeavesOutputs ==
    [][(pc = "ready" /\ StartsWithPercent(buf) /\ ActionSymbol(buf) \in AckSymbols)
          => pins' = pins]_vars

\* %50- dispatched while the car drives forward at the default speed: the speed
\* is now 50 and the outputs are still those of %W at 60
C7_Witness ==
    /\ Dispatched
    /\ buf = <<"%", "5", "0", "-">>
    /\ speed = 50
    /\ pins = TableRow("W", 135)

-----------------------------------------------------------------------------
(* C8 *)

\* C8: the duty value written to either channel is in 0..255, in every state.
C8_DutyInRange ==
    pins.p5 \in 0..255 /\ pins.p6 \in 0..255

-----------------------------------------------------------------------------
(* C9 *)

\* C9: after the dispatch of a frame that starts with '%' and a digit and has a
\* character that is no digit inside its numeric span (index 1 up to, not
\* including, the last character), both channels are in the stop configuration.
C9_MalformedNumberStops ==
    (/\ Dispatched
     /\ HasSpeedPrefix(buf)
     /\ \E i \in 2..(Len(buf) - 1) : ~isDigit(buf[i]))
        => pins = StopRow

-----------------------------------------------------------------------------
(* C10 *)

\* the outputs are a row of the dispatch table for one action and one duty value
IsTableRow(p) ==
    p = StopRow \/ \E a \in MotionSymbols : p = TableRow(a, p.p5)

\* C10 as stated: in every state, between the pin writes of a dispatch too, the
\* outputs are a row of the dispatch table for a single action and duty.
C10_AlwaysTableRow == IsTableRow(pins)

\* C10 as amended: whenever the program is not among the pin writes of a dispatch
\* (so at every end of a polling cycle), the outputs are a row of the dispatch
\* table for a single action and duty.
C10_TableRowOutsideWrites == pc # "write" => IsTableRow(pins)

\* the frame X dispatched after an earlier frame had set the speed to 5: the
\* four writes of the stop branch are done and the outputs are the stop row
C10_Witness ==
    /\ Dispatched
    /\ buf = <<"X">>
    /\ speed = 5
    /\ pins = StopRow

\* the frame is a speed acknowledgement: %+, %-, or a speed prefix ending in + or -
IsAck(f) == StartsWithPercent(f) /\ ActionSymbol(f) \in AckSymbols

\* both runs have just dispatched the same frame, from the same Target Speed
SameDispatch ==
    /\ Dispatched
    /\ twin.was # <<>>
    /\ twin.buf = buf
    /\ twin.was.a.speed = twin.was.b.speed

\* C11 as stated: two runs that dispatch the same frame at the same Target
\* Speed have the same outputs afterwards, whatever outputs each had before.
C11_OutputsForgetPast == SameDispatch => pins = twin.pins

\* C11 amended: two runs that dispatch the same frame at the same Target Speed
\* have the same outputs afterwards unless the frame is a speed
\* acknowledgement, after which each run has the outputs it had before.
C11_OutputsForgetPastUnlessAck ==
    SameDispatch =>
        IF IsAck(buf) THEN pins = twin.was.a.pins /\ twin.pins = twin.was.b.pins
        ELSE pins = twin.pins

\* both runs dispatched %W at speed 60, one from forward and one from reverse outputs
C11_Witness ==
    /\ SameDispatch
    /\ buf = <<"%", "W">>
    /\ twin.was.a.pins = TableRow("S", 135)
    /\ twin.was.b.pins = TableRow("L", 135)
    /\ pins = TableRow("W", 135)
    /\ twin.pins = pins

\* the Target Speed and the outputs are those of the frame tx.frame dispatched
\* in one piece from the state in which the sender started on it
AsWholeFrame ==
    \E i \in Interpretations(tx.frame, tx.start.speed) :
        speed = i.speed /\ pins = ApplyAll(tx.start.pins, i.writes)

\* every byte of the sender's frame has been read, dispatched and cleared
AllConsumed ==
    /\ tx.frame # <<>>
    /\ tx.left = <<>>
    /\ rx = <<>>
    /\ buf = <<>>
    /\ pc = "drain"

SameFrameAgain == Dispatched /\ prev # <<>> /\ prev[1].frame = buf

\* C13: when the same frame is dispatched twice in a row, the outputs and the
\* Target Speed after the second dispatch are those after the first.
C13_SecondDispatchChangesNothing ==
    SameFrameAgain => (pins = prev[1].pins /\ speed = prev[1].speed)

\* %5W has been dispatched a second time, after a stop frame and %5W
C13_Witness ==
    /\ SameFrameAgain
    /\ buf = <<"%", "5", "W">>
    /\ Len(prev) = 2
    /\ prev[2].pins = StopRow
    /\ speed = 5
    /\ pins = TableRow("W", 11)

\* %L, %R, %W, %S
BareMotion(f) == Len(f) = 2 /\ f[1] = "%" /\ f[2] \in MotionSymbols

\* two bare motion frames have been dispatched one after the other
TwoBareMotions == Dispatched /\ prev # <<>> /\ BareMotion(buf) /\ BareMotion(prev[1].frame)

\* three bare motion frames have been dispatched in a row, the third the same as the first
ThereAndBack == TwoBareMotions /\ Len(prev) = 2 /\ prev[2].frame = buf

\* C14: over a sequence of bare motion frames the Target Speed and the duty
\* written stay the same and only the direction flags change; the state after
\* %W, another bare motion frame and %W again is the state after the first %W.
C14_BareMotionsKeepSpeedAndDuty ==
    /\ TwoBareMotions =>
          /\ speed = prev[1].speed
          /\ pins.p5 = prev[1].pins.p5
          /\ pins.p6 = prev[1].pins.p6
          /\ pins = TableRow(buf[2], pins.p5)
    /\ ThereAndBack => (speed = prev[2].speed /\ pins = prev[2].pins)

\* %W, %S, %W at speed 60: forward at duty 135 as after the first %W
C14_Witness ==
    /\ ThereAndBack
    /\ buf = <<"%", "W">>
    /\ prev[1].frame = <<"%", "S">>
    /\ prev[1].pins = TableRow("S", 135)
    /\ speed = 60
    /\ pins = TableRow("W", 135)

\* the drain loop of lines 16-19 ends
DrainEnds == (pc = "drain") ~> (pc = "ready")

\* lines 21-98 end
DispatchEnds == (pc # "drain") ~> (pc = "drain")

\* a non-empty buffer is dispatched and cleared
BufferCleared == (buf # <<>>) ~> (buf = <<>>)

\* C15 as stated: with loop() scheduled fairly, the drain step of every polling
\* cycle ends and every non-empty buffer is eventually dispatched and cleared.
C15_NothingBlocks == DrainEnds /\ DispatchEnds /\ BufferCleared

\* C15 amended: with loop() scheduled fairly, the part of a polling cycle after
\* the drain step always ends; the drain step ends if the sender eventually
\* stays quiet; and if every drain step ends, every non-empty buffer is
\* eventually dispatched and cleared.
C15_NothingBlocksOnceSenderQuiet ==
    /\ DispatchEnds
    /\ <>[](tx.quiet) => DrainEnds
    /\ []<>(pc # "drain") => BufferCleared

\* the sender has paused, and %W, read and dispatched, has been cleared
C15_Witness ==
    /\ tx.quiet
    /\ pc = "drain"
    /\ rx = <<>>
    /\ buf = <<>>
    /\ pins = TableRow("W", 135)

\* the program is between the echo of a frame and the clearing of the buffer
InDispatch == pc \in {"interp", "write", "clear"}

\* the lines a dispatch prints: the frame, and after a speed acknowledgement
\* the notice with the Target Speed
LinesOfDispatch ==
    IF pc # "interp" /\ IsAck(buf)
    THEN <<buf, <<"Speed updated to: ", speed>>>>
    ELSE <<buf>>

\* C16: a dispatch prints the frame once, whether or not it starts with '%',
\* and before any output is written; it prints "Speed updated to: <n>" if and
\* only if the frame starts with '%' and its action symbol is '+' or '-', n
\* being the Target Speed after parsing; nothing else is printed.
C16_EchoThenNotice ==
    /\ [](IF InDispatch THEN serialOut = LinesOfDispatch ELSE serialOut = <<>>)
    /\ [][pins' # pins => (serialOut # <<>> /\ serialOut[1] = buf)]_vars

\* %5+ has been dispatched: the echo, then the notice with the new speed 5
C16_Witness ==
    /\ Dispatched
    /\ buf = <<"%", "5", "+">>
    /\ speed = 5
    /\ serialOut = <<buf, <<"Speed updated to: ", 5>>>>

\* a frame starting with '%', of length at most 2, whose character at index 1
\* is absent or none of + - L R W S
ShortUnrecognized(f) ==
    /\ StartsWithPercent(f)
    /\ Len(f) <= 2
    /\ ActionSymbol(f) \notin MotionSymbols \cup AckSymbols

\* C17: the dispatch of a frame starting with '%', of length at most 2, whose
\* character at index 1 is absent or is not one of + - L R W S (a digit
\* included), leaves the Target Speed as it was and puts the outputs in the
\* stop configuration.
C17_ShortFrameStops ==
    [][(pc = "ready" /\ ShortUnrecognized(buf)) => (speed' = speed /\ pins' = StopRow)]_vars

\* %5 has been dispatched at Target Speed 50: stop, and the speed still 50
C17_Witness ==
    /\ Dispatched
    /\ buf = <<"%", "5">>
    /\ speed = 50
    /\ pins = StopRow

\* C18: the bytes of the frames dispatched so far, followed by the buffer, are
\* the bytes read so far, in the same order (hist holds both sequences without
\* the prefix they share); and a dispatch never has an empty buffer.
C18_BytesConserved ==
    /\ hist.read = hist.sent \o buf
    /\ InDispatch => buf # <<>>

\* after a frame that stopped the motors, %W has been read and the drain loop has ended
C18_Witness ==
    /\ pc = "ready"
    /\ pins = StopRow
    /\ hist.read = <<"%", "W">>
    /\ buf = hist.read

\* C19 as stated: the Target Speed is never negative.
C19_SpeedNonNegative == speed >= 0

\* a polling cycle with no byte available and nothing in the buffer
IdleCycle == rx = <<>> /\ buf = <<>> /\ pc \in {"drain", "ready"}

\* C20: a polling cycle that finds no byte available and an empty buffer
\* changes neither the outputs nor the Target Speed nor the buffer and prints
\* nothing, so the outputs keep the configuration last dispatched however
\* many such cycles pass.
C20_IdleCycleChangesNothing ==
    [][IdleCycle => (pins' = pins /\ speed' = speed /\ buf' = buf /\ serialOut' = serialOut)]_vars

\* the drain loop of an idle cycle has ended with the motors running forward at speed 5
C20_Witness ==
    /\ IdleCycle
    /\ pc = "ready"
    /\ speed = 5
    /\ pins = TableRow("W", 11)

=============================================================================
